---- MODULE Spec2Model ----
(***************************************************************************)
(* Model of the personal expense manager (src/index.tsx): the aggregation  *)
(* services calculateTotals, groupExpensesByCategory,                      *)
(* groupTransactionsByMonth, getDashboardStats, the budget evaluation of   *)
(* DashboardPage, and the page renders that apply them to the stored       *)
(* transactions and budgets.                                               *)
(*                                                                         *)
(* Conventions.  Amounts are exact integers (minor currency units).  A JS  *)
(* object used as a dictionary is a sequence of [key, value] records in    *)
(* property-insertion order (all keys used by the code are non-numeric     *)
(* strings, so Object.keys/entries/values enumerate in insertion order).   *)
(* The Arabic string literals of the source are written in Latin           *)
(* transliteration because the module is plain ASCII.                      *)
(***************************************************************************)
EXTENDS Integers, Sequences, FiniteSets, TLC

(* ------------------------------ bounds --------------------------------- *)

\* longest transaction collection read from storage
MaxTx == 3
\* longest transaction collection read from storage together with budgets
MaxBudgetTx == 2
\* largest transaction amount and largest budget limit
MaxAmount == 2
\* how many months the environment clock advances
MaxTick == 1

(* ------------------------- types and catalog --------------------------- *)

\* enum TransactionType
INCOME == "income"
EXPENSE == "expense"

\* CATEGORIES.INCOME (names: ratib, amal hurr, istithmar, dakhl akhar)
CATEGORIES_INCOME ==
  << [id |-> "salary",       name |-> "ratib",        color |-> "#22c55e"],
     [id |-> "freelance",    name |-> "amal hurr",    color |-> "#4ade80"],
     [id |-> "investment",   name |-> "istithmar",    color |-> "#86efac"],
     [id |-> "other_income", name |-> "dakhl akhar",  color |-> "#bbf7d0"] >>

\* CATEGORIES.EXPENSE
CATEGORIES_EXPENSE ==
  << [id |-> "food",               name |-> "taam",              color |-> "#ef4444"],
     [id |-> "housing",            name |-> "sakan",             color |-> "#f87171"],
     [id |-> "transport",          name |-> "muwasalat",         color |-> "#f97316"],
     [id |-> "entertainment",      name |-> "tarfih",            color |-> "#facc15"],
     [id |-> "health",             name |-> "sihha",             color |-> "#3b82f6"],
     [id |-> "shopping",           name |-> "tasawwuq",          color |-> "#a855f7"],
     [id |-> "education",          name |-> "taalim",            color |-> "#8b5cf6"],
     [id |-> "bills",              name |-> "fawatir",           color |-> "#6366f1"],
     [id |-> "debts",              name |-> "duyun",             color |-> "#ec4899"],
     [id |-> "investment_expense", name |-> "istithmarat",       color |-> "#14b8a6"],
     [id |-> "leisure",            name |-> "masarif tarfihiyya", color |-> "#d97706"],
     [id |-> "other_expense",      name |-> "masarif ukhra",     color |-> "#6b7280"] >>

\* the value of Array.prototype.find when no element matches
undefined == [id |-> "undefined", name |-> "undefined", color |-> "undefined"]

\* initial value of largestSpendingCategory ("la yujad": there is none)
LABEL_NONE == "la yujad"
\* fallback category name ("ghayr maaruf": unknown)
LABEL_UNKNOWN == "ghayr maaruf"
\* fallback color of a budget row
COLOR_UNKNOWN == "#ccc"

(* --------------------------- JS primitives ----------------------------- *)

Min(S) == CHOOSE x \in S : \A y \in S : x <= y

\* Array.prototype.reduce(callback, initialValue)
Reduce(Op(_, _), seq, init) ==
  LET f[i \in 0..Len(seq)] == IF i = 0 THEN init ELSE Op(f[i - 1], seq[i])
  IN  f[Len(seq)]

\* Array.prototype.map(callback)
Map(Op(_), seq) == [i \in 1..Len(seq) |-> Op(seq[i])]

\* position at which a stable sort places x in an already sorted prefix:
\* before the first element that the comparator orders after x
sortPosition(Cmp(_, _), sorted, x) ==
  LET after == {i \in 1..Len(sorted) : Cmp(sorted[i], x) > 0}
  IN  IF after = {} THEN Len(sorted) + 1 ELSE Min(after)

\* Array.prototype.sort(compareFn): a stable sort (ECMAScript 2019)
Sort(Cmp(_, _), seq) ==
  LET insert(sorted, x) ==
        LET p == sortPosition(Cmp, sorted, x)
        IN  SubSeq(sorted, 1, p - 1) \o <<x>> \o SubSeq(sorted, p, Len(sorted))
  IN  Reduce(insert, seq, <<>>)

\* obj[key] !== undefined for a dictionary object
objHas(obj, key) == \E i \in 1..Len(obj) : obj[i].key = key

\* obj[key], for a key the object has
objGet(obj, key) == obj[Min({i \in 1..Len(obj) : obj[i].key = key})].value

\* obj[key] = value: an existing property keeps its place, a new one is last
objSet(obj, key, value) ==
  IF objHas(obj, key)
  THEN [i \in 1..Len(obj) |-> IF obj[i].key = key
                              THEN [key |-> key, value |-> value]
                              ELSE obj[i]]
  ELSE Append(obj, [key |-> key, value |-> value])

(* ------------------------------ services ------------------------------- *)

\* totalsReducer with the balance refreshed by an income only
totalsReducer_staleBalance(acc, transaction) ==
  IF transaction.type = INCOME
  THEN [acc EXCEPT !.income = @ + transaction.amount,
                   !.balance = acc.income + transaction.amount - acc.expense]
  ELSE [acc EXCEPT !.expense = @ + transaction.amount]

\* totalsReducer that adds every amount to income
totalsReducer_noTypeTest(acc, transaction) ==
  LET summed == [acc EXCEPT !.income = @ + transaction.amount]
  IN  [summed EXCEPT !.balance = summed.income - summed.expense]

\* the reducer callback of calculateTotals
totalsReducer(acc, transaction) ==
  LET summed == IF transaction.type = INCOME
                THEN [acc EXCEPT !.income = @ + transaction.amount]
                ELSE [acc EXCEPT !.expense = @ + transaction.amount]
  IN  [summed EXCEPT !.balance = summed.income - summed.expense]

calculateTotals(txs) ==
  Reduce(totalsReducer, txs, [income |-> 0, expense |-> 0, balance |-> 0])

getCategoryById(id) ==
  LET allCategories == CATEGORIES_INCOME \o CATEGORIES_EXPENSE
      found == {i \in 1..Len(allCategories) : allCategories[i].id = id}
  IN  IF found = {} THEN undefined ELSE allCategories[Min(found)]


\* groupReducer that assigns the amount to the bucket instead of adding it
groupReducer_assign(acc, expense) ==
  LET category == getCategoryById(expense.categoryId)
  IN  IF category = undefined
      THEN acc
      ELSE objSet(acc, category.name,
                  [total |-> expense.amount, color |-> category.color, count |-> 1])

\* groupReducer that buckets an unresolvable category under the unknown label
groupReducer_keepUnknown(acc, expense) ==
  LET category == getCategoryById(expense.categoryId)
      name == IF category = undefined THEN LABEL_UNKNOWN ELSE category.name
      color == IF category = undefined THEN COLOR_UNKNOWN ELSE category.color
      created == IF ~objHas(acc, name)
                 THEN objSet(acc, name, [total |-> 0, color |-> color, count |-> 0])
                 ELSE acc
      bucket == objGet(created, name)
  IN  objSet(created, name,
             [bucket EXCEPT !.total = @ + expense.amount, !.count = @ + 1])

\* the reducer callback of groupExpensesByCategory
groupReducer(acc, expense) ==
  LET category == getCategoryById(expense.categoryId)
  IN  IF category = undefined
      THEN acc
      ELSE LET created == IF ~objHas(acc, category.name)
                          THEN objSet(acc, category.name,
                                      [total |-> 0, color |-> category.color, count |-> 0])
                          ELSE acc
               bucket == objGet(created, category.name)
           IN  objSet(created, category.name,
                      [bucket EXCEPT !.total = @ + expense.amount, !.count = @ + 1])

\* the map callback of groupExpensesByCategory over Object.entries(grouped)
groupEntry(entry) ==
  [name |-> entry.key, value |-> entry.value.total, color |-> entry.value.color]

groupExpensesByCategory(txs) ==
  LET isExpense(t) == t.type = EXPENSE
      expenses == SelectSeq(txs, isExpense)
      grouped == Reduce(groupReducer, expenses, <<>>)
  IN  Map(groupEntry, grouped)

(* ------------------------------- dates --------------------------------- *)
(* A transaction date is the 'YYYY-MM-DD' string of the date input, kept   *)
(* as [year, month (1..12), day].  new Date('YYYY-MM-DD') is midnight UTC  *)
(* of that day; getMonth, getFullYear and toLocaleString then read it in   *)
(* the local time zone.  In a zone behind UTC that instant is the evening  *)
(* of the previous day.  Only day 1 and mid-month days are modelled, so    *)
(* the previous day of day 1 is in the previous month and every other day  *)
(* stays in its month.                                                     *)

\* [fullYear, month] as getFullYear() and getMonth() (0..11) report them
\* for new Date(date), in a zone behind UTC (west) or not
localYearMonth(date, west) ==
  IF west /\ date.day = 1
  THEN IF date.month = 1
       THEN [fullYear |-> date.year - 1, month |-> 11]
       ELSE [fullYear |-> date.year, month |-> date.month - 2]
  ELSE [fullYear |-> date.year, month |-> date.month - 1]

\* short month names of the ar-EG locale, January first
AR_MONTHS ==
  << "yanayir", "fibrayir", "maris", "abril", "mayu", "yunyu",
     "yulyu", "aghustus", "sibtambir", "uktubar", "nufimbir", "disambir" >>

\* new Date(date).toLocaleString('ar-EG', {month: 'short', year: 'numeric',
\* numberingSystem: 'latn'}): "<month name> <year>", kept as a record
monthLabel(date, west) ==
  LET ym == localYearMonth(date, west)
  IN  [month |-> AR_MONTHS[ym.month + 1], year |-> ym.fullYear]

\* new Date(label).getTime() for a month label.  The label is not a format
\* Date.parse is required to understand: an engine either rejects it
\* (Invalid Date, time NaN) or, as the lenient legacy parsers do, skips the
\* unknown word and reads the number as a year, giving 1 January of it.
labelTime(label, lenient) ==
  IF lenient THEN [nan |-> FALSE, t |-> label.year] ELSE [nan |-> TRUE, t |-> 0]

\* the compareFn of groupTransactionsByMonth: time(b) - time(a); a NaN
\* result is treated by sort as 0
monthCompare(a, b, lenient) ==
  LET ta == labelTime(a.name, lenient)
      tb == labelTime(b.name, lenient)
  IN  IF ta.nan \/ tb.nan THEN 0 ELSE tb.t - ta.t

\* the reducer callback of groupTransactionsByMonth; the fields income and
\* expense are the properties "dakhl" and "masruf" of the source
monthReducer(acc, tx, west) ==
  LET month == monthLabel(tx.date, west)
      created == IF ~objHas(acc, month)
                 THEN objSet(acc, month, [name |-> month, income |-> 0, expense |-> 0])
                 ELSE acc
      bucket == objGet(created, month)
  IN  IF tx.type = INCOME
      THEN objSet(created, month, [bucket EXCEPT !.income = @ + tx.amount])
      ELSE objSet(created, month, [bucket EXCEPT !.expense = @ + tx.amount])

groupTransactionsByMonth(txs, west, lenient) ==
  LET reducer(acc, tx) == monthReducer(acc, tx, west)
      data == Reduce(reducer, txs, <<>>)
      value(entry) == entry.value
      cmp(a, b) == monthCompare(a, b, lenient)
  IN  Sort(cmp, Map(value, data))

(* ------------------------- dashboard statistics ------------------------ *)

\* spendingReducer that keeps the last amount of a category
spendingReducer_lastWins(acc, tx) == objSet(acc, tx.categoryId, tx.amount)

\* the reducer callback that sums amounts per categoryId (spendingByCategory
\* of getDashboardStats and expensesByCategory of budgetStatus)
spendingReducer(acc, tx) ==
  objSet(acc, tx.categoryId,
         (IF objHas(acc, tx.categoryId) THEN objGet(acc, tx.categoryId) ELSE 0)
           + tx.amount)

\* spendingCompare in ascending order
spendingCompare_ascending(a, b) == a.value - b.value

\* the compareFn ([, a], [, b]) => b - a over Object.entries
spendingCompare(a, b) == b.value - a.value

\* largestSpendingCategory that sums the expenses of catalog categories only
largestSpendingCategory_catalogOnly(txs) ==
  LET known(tx) == tx.type = EXPENSE /\ getCategoryById(tx.categoryId) # undefined
      expenseTransactions == SelectSeq(txs, known)
  IN  IF Len(expenseTransactions) > 0
      THEN LET spendingByCategory == Reduce(spendingReducer, expenseTransactions, <<>>)
               largestCategoryEntry == Sort(spendingCompare, spendingByCategory)[1]
           IN  getCategoryById(largestCategoryEntry.key).name
      ELSE LABEL_NONE

\* largestSpendingCategory of getDashboardStats
largestSpendingCategory(txs) ==
  LET isExpense(tx) == tx.type = EXPENSE
      expenseTransactions == SelectSeq(txs, isExpense)
  IN  IF Len(expenseTransactions) > 0
      THEN LET spendingByCategory == Reduce(spendingReducer, expenseTransactions, <<>>)
               largestCategoryEntry == Sort(spendingCompare, spendingByCategory)[1]
               category == getCategoryById(largestCategoryEntry.key)
           IN  IF category # undefined THEN category.name ELSE LABEL_UNKNOWN
      ELSE LABEL_NONE

\* Math.max(...values) of a non-empty array
MathMax(values) ==
  CHOOSE m \in {values[i] : i \in 1..Len(values)} :
    \A i \in 1..Len(values) : values[i] <= m

\* highestIncome taken over the transactions of both types
highestIncome_anyType(txs) ==
  LET amount(tx) == tx.amount
  IN  IF Len(txs) > 0 THEN MathMax(Map(amount, txs)) ELSE 0

\* highestIncome of getDashboardStats
highestIncome(txs) ==
  LET isIncome(tx) == tx.type = INCOME
      incomeTransactions == SelectSeq(txs, isIncome)
      amount(tx) == tx.amount
  IN  IF Len(incomeTransactions) > 0 THEN MathMax(Map(amount, incomeTransactions)) ELSE 0

\* greatest common divisor of two naturals, not both 0
RECURSIVE GCD(_, _)
GCD(a, b) == IF b = 0 THEN a ELSE GCD(b, a % b)

\* the number n / d, d > 0, as a fraction in lowest terms
Ratio(n, d) ==
  LET g == GCD(IF n < 0 THEN -n ELSE n, d)
  IN  [num |-> n \div g, den |-> d \div g]

\* sign of p - q for two fractions
ratioCompare(p, q) == p.num * q.den - q.num * p.den

\* the filter callback selecting the transactions of the current month;
\* clock is the [fullYear, month] that new Date() reports
inCurrentMonth(tx, clock, west) ==
  LET txDate == localYearMonth(tx.date, west)
  IN  txDate.month = clock.month /\ txDate.fullYear = clock.fullYear

\* monthlySavingsPercentage that reports no negative value
monthlySavingsPercentage_clamped(txs, clock, west) ==
  LET current(tx) == inCurrentMonth(tx, clock, west)
      monthlyTotals == calculateTotals(SelectSeq(txs, current))
      monthlySavings == monthlyTotals.income - monthlyTotals.expense
  IN  IF monthlyTotals.income > 0 /\ monthlySavings > 0
      THEN Ratio(monthlySavings * 100, monthlyTotals.income)
      ELSE Ratio(0, 1)

\* monthlySavingsPercentage of getDashboardStats
monthlySavingsPercentage(txs, clock, west) ==
  LET current(tx) == inCurrentMonth(tx, clock, west)
      monthlyTotals == calculateTotals(SelectSeq(txs, current))
      monthlySavings == monthlyTotals.income - monthlyTotals.expense
  IN  IF monthlyTotals.income > 0
      THEN Ratio(monthlySavings * 100, monthlyTotals.income)
      ELSE Ratio(0, 1)

\* getDashboardStats; clock is the value of new Date() read inside it
getDashboardStats(txs, clock, west) ==
  [totalTransactions |-> Len(txs),
   largestSpendingCategory |-> largestSpendingCategory(txs),
   highestIncome |-> highestIncome(txs),
   monthlySavingsPercentage |-> monthlySavingsPercentage(txs, clock, west)]

(* --------------------------- budget evaluation ------------------------- *)

\* a map callback whose percentage is the plain fraction spent / limit
budgetRow_fraction(entry, expensesByCategory) ==
  LET categoryId == entry.key
      budgetAmount == entry.value
      category == getCategoryById(categoryId)
      spentAmount == IF objHas(expensesByCategory, categoryId)
                     THEN objGet(expensesByCategory, categoryId) ELSE 0
  IN  IF budgetAmount <= 0
      THEN [isNull |-> TRUE]
      ELSE [isNull |-> FALSE,
            categoryId |-> categoryId,
            categoryName |-> IF category # undefined THEN category.name ELSE LABEL_UNKNOWN,
            budgetAmount |-> budgetAmount,
            spentAmount |-> spentAmount,
            percentage |-> Ratio(spentAmount, budgetAmount),
            remaining |-> budgetAmount - spentAmount,
            color |-> IF category # undefined THEN category.color ELSE COLOR_UNKNOWN]

\* a map callback that keeps a row, at 0 percent, for a budget amount that
\* is not positive
budgetRow_zeroPercentForUnset(entry, expensesByCategory) ==
  LET categoryId == entry.key
      budgetAmount == entry.value
      category == getCategoryById(categoryId)
      spentAmount == IF objHas(expensesByCategory, categoryId)
                     THEN objGet(expensesByCategory, categoryId) ELSE 0
  IN  [isNull |-> FALSE,
       categoryId |-> categoryId,
       categoryName |-> IF category # undefined THEN category.name ELSE LABEL_UNKNOWN,
       budgetAmount |-> budgetAmount,
       spentAmount |-> spentAmount,
       percentage |-> IF budgetAmount <= 0 THEN Ratio(0, 1)
                      ELSE Ratio(spentAmount * 100, budgetAmount),
       remaining |-> budgetAmount - spentAmount,
       color |-> IF category # undefined THEN category.color ELSE COLOR_UNKNOWN]

\* a map callback that drops the budgets nothing was spent on
budgetRow_skipUnspent(entry, expensesByCategory) ==
  LET categoryId == entry.key
      budgetAmount == entry.value
      category == getCategoryById(categoryId)
      spentAmount == IF objHas(expensesByCategory, categoryId)
                     THEN objGet(expensesByCategory, categoryId) ELSE 0
  IN  IF budgetAmount <= 0 \/ spentAmount = 0
      THEN [isNull |-> TRUE]
      ELSE [isNull |-> FALSE,
            categoryId |-> categoryId,
            categoryName |-> IF category # undefined THEN category.name ELSE LABEL_UNKNOWN,
            budgetAmount |-> budgetAmount,
            spentAmount |-> spentAmount,
            percentage |-> Ratio(spentAmount * 100, budgetAmount),
            remaining |-> budgetAmount - spentAmount,
            color |-> IF category # undefined THEN category.color ELSE COLOR_UNKNOWN]

\* a map callback that drops the budgets of categories that are not in the
\* catalog
budgetRow_skipUnknown(entry, expensesByCategory) ==
  LET categoryId == entry.key
      budgetAmount == entry.value
      category == getCategoryById(categoryId)
      spentAmount == IF objHas(expensesByCategory, categoryId)
                     THEN objGet(expensesByCategory, categoryId) ELSE 0
  IN  IF budgetAmount <= 0 \/ category = undefined
      THEN [isNull |-> TRUE]
      ELSE [isNull |-> FALSE,
            categoryId |-> categoryId,
            categoryName |-> category.name,
            budgetAmount |-> budgetAmount,
            spentAmount |-> spentAmount,
            percentage |-> Ratio(spentAmount * 100, budgetAmount),
            remaining |-> budgetAmount - spentAmount,
            color |-> category.color]

\* the map callback of budgetStatus: the row of one budget key, or the
\* null row for a missing or non-positive budget amount
budgetRow(entry, expensesByCategory) ==
  LET categoryId == entry.key
      budgetAmount == entry.value
      category == getCategoryById(categoryId)
      spentAmount == IF objHas(expensesByCategory, categoryId)
                     THEN objGet(expensesByCategory, categoryId) ELSE 0
  IN  IF budgetAmount <= 0
      THEN [isNull |-> TRUE]
      ELSE [isNull |-> FALSE,
            categoryId |-> categoryId,
            categoryName |-> IF category # undefined THEN category.name ELSE LABEL_UNKNOWN,
            budgetAmount |-> budgetAmount,
            spentAmount |-> spentAmount,
            percentage |-> Ratio(spentAmount * 100, budgetAmount),
            remaining |-> budgetAmount - spentAmount,
            color |-> IF category # undefined THEN category.color ELSE COLOR_UNKNOWN]

\* the compareFn (a, b) => a.percentage - b.percentage
percentageCompare_ascending(a, b) == ratioCompare(a.percentage, b.percentage)

\* the compareFn (a, b) => b.percentage - a.percentage
percentageCompare(a, b) == ratioCompare(b.percentage, a.percentage)

\* a budgetStatus that returns no row for an empty transaction collection
budgetStatus_emptyWithoutTx(txs, bdg, clock, west) ==
  LET currentExpense(tx) == tx.type = EXPENSE /\ inCurrentMonth(tx, clock, west)
      currentMonthExpenses == SelectSeq(txs, currentExpense)
      expensesByCategory == Reduce(spendingReducer, currentMonthExpenses, <<>>)
      row(entry) == budgetRow(entry, expensesByCategory)
      notNull(item) == ~item.isNull
  IN  IF txs = <<>> THEN <<>>
      ELSE Sort(percentageCompare, SelectSeq(Map(row, bdg), notNull))

\* the body of the budgetStatus memo of DashboardPage
budgetStatus(txs, bdg, clock, west) ==
  LET currentExpense(tx) == tx.type = EXPENSE /\ inCurrentMonth(tx, clock, west)
      currentMonthExpenses == SelectSeq(txs, currentExpense)
      expensesByCategory == Reduce(spendingReducer, currentMonthExpenses, <<>>)
      row(entry) == budgetRow(entry, expensesByCategory)
      notNull(item) == ~item.isNull
  IN  Sort(percentageCompare, SelectSeq(Map(row, bdg), notNull))

\* the alert threshold of budgetAlerts, in percent
ALERT_THRESHOLD == 80

\* a filter callback that leaves out a row at exactly the threshold
isAlert_strict(s) == ratioCompare(s.percentage, Ratio(ALERT_THRESHOLD, 1)) > 0

\* the filter callback of budgetAlerts
isAlert(s) == ratioCompare(s.percentage, Ratio(ALERT_THRESHOLD, 1)) >= 0

\* the body of the budgetAlerts memo of DashboardPage
budgetAlerts(statuses) == Sort(percentageCompare, SelectSeq(statuses, isAlert))

\* the percentage above which an alert is shown as exceeded
EXCEEDED_ABOVE == 100

\* a test that takes a budget used up to its limit as exceeded
isExceeded_atLimit(alert) ==
  ratioCompare(alert.percentage, Ratio(EXCEEDED_ABOVE, 1)) >= 0

\* const isExceeded = alert.percentage > 100
isExceeded(alert) ==
  ratioCompare(alert.percentage, Ratio(EXCEEDED_ABOVE, 1)) > 0

\* the banner of one alert: its key, which of the two messages it shows
\* and the class of its box
alertBanner(alert) ==
  [key |-> alert.categoryId,
   message |-> IF isExceeded(alert) THEN "exceeded" ELSE "approaching",
   className |-> IF isExceeded(alert) THEN "bg-red-100 text-error"
                 ELSE "bg-amber-100 text-amber-800"]

\* budgetAlerts.map(alert => ...) of the alert box
alertBanners(alerts) == [i \in 1..Len(alerts) |-> alertBanner(alerts[i])]

(* ------------------------- writes of a render -------------------------- *)
(* Arrays and objects are handed to the functions by reference.  The heap  *)
(* of a render holds the objects a function can reach: the transaction     *)
(* collection and the budgets of the provider, the memoised status and     *)
(* alert lists, and the results the functions construct.  Every assignment *)
(* (acc.income +=, acc[key] =) and every in-place method (sort) of the     *)
(* functions has a receiver; the definitions below give the heap after a   *)
(* call.                                                                   *)

heap(txs, bdg, statuses, alerts) ==
  [transactions |-> txs, budgets |-> bdg,
   budgetStatus |-> statuses, budgetAlerts |-> alerts,
   totals |-> <<>>, expenseData |-> <<>>, monthlyData |-> <<>>, stats |-> <<>>]

\* calculateTotals: the reducer assigns to acc, the literal passed as the
\* initial value
calculateTotalsWrites(h) ==
  [h EXCEPT !.totals = calculateTotals(h.transactions)]

\* groupExpensesByCategory: the reducer assigns to acc, a literal; filter,
\* Object.entries and map return new arrays
groupExpensesByCategoryWrites(h) ==
  [h EXCEPT !.expenseData = groupExpensesByCategory(h.transactions)]

\* a monthly grouping that first reverses the collection in place to visit
\* the oldest transaction first
groupTransactionsByMonthWrites_reverse(h, west, lenient) ==
  LET n == Len(h.transactions)
      reversed == [i \in 1..n |-> h.transactions[n - i + 1]]
  IN  [h EXCEPT !.transactions = reversed,
                !.monthlyData = groupTransactionsByMonth(reversed, west, lenient)]

\* groupTransactionsByMonth: the reducer assigns to acc, a literal; sort
\* reorders the new array returned by Object.values
groupTransactionsByMonthWrites(h, west, lenient) ==
  [h EXCEPT !.monthlyData = groupTransactionsByMonth(h.transactions, west, lenient)]

\* getDashboardStats: the reducer assigns to acc, a literal; sort reorders
\* the new array returned by Object.entries; the result is a new literal
getDashboardStatsWrites(h, clock, west) ==
  [h EXCEPT !.stats = getDashboardStats(h.transactions, clock, west)]

\* the budgetStatus memo: the reducer assigns to acc, a literal; sort
\* reorders the new array returned by filter; useMemo keeps the result
budgetStatusWrites(h, clock, west) ==
  [h EXCEPT !.budgetStatus = budgetStatus(h.transactions, h.budgets, clock, west)]

\* the budgetAlerts memo: sort reorders the new array returned by
\* budgetStatus.filter; useMemo keeps the result
budgetAlertsWrites(h) ==
  [h EXCEPT !.budgetAlerts = budgetAlerts(h.budgetStatus)]

(* -------------------------------- state -------------------------------- *)

VARIABLES
  transactions,       \* AppProvider state: the transaction collection, newest first
  budgets,            \* AppProvider state: categoryId -> monthly limit, in key order
  now,                \* the environment clock: [fullYear, month] of new Date()
  timeZoneWest,       \* environment: the local time zone is behind UTC
  lenientDateParser,  \* environment: Date.parse accepts a month label
  view,               \* the page on screen and the aggregates its render computed
  theme,              \* AppProvider state: the class of the selected theme
  millis,             \* the environment clock: the value of Date.now()
  event               \* the handler that ran last, with its inputs

vars == <<transactions, budgets, now, timeZoneWest, lenientDateParser, view,
          theme, millis, event>>

\* the variables of the environment other than Date.now()
environment == <<now, timeZoneWest, lenientDateParser>>

\* the default of the theme key of the storage
DEFAULT_THEME == "theme-ocean"

\* Date.now() when the application is opened; the ids of the stored
\* transactions are earlier values of it
START_MILLIS == 10

\* no handler of the provider ran in the last step
noEvent == [op |-> "none"]

\* no page with aggregates is mounted
notRendered == [page |-> "none"]

\* the clock when the application is opened: March 2024
START_CLOCK == [fullYear |-> 2024, month |-> 2]

monthIndex(clock) == clock.fullYear * 12 + clock.month

(* ------------------------ stored data (inputs) -------------------------- *)
(* useLocalStorage initialises transactions and budgets with whatever is   *)
(* stored under their keys: any well-typed collection, also one written by *)
(* another version of the application (a categoryId that is not in the     *)
(* catalog).  Three families of stored data are explored: collections that *)
(* vary in category and amount, collections that vary in date, and short   *)
(* collections together with budgets.  Two further families store budgets  *)
(* with transactions that vary in date and type, and the budgets and       *)
(* amounts of the documented examples, among them budget entries that are  *)
(* not positive (setBudget never writes one, the storage may hold one).    *)
(* A last family stores a budget of a category that is not in the catalog. *)

Amounts == 1..MaxAmount

MID_MARCH == [year |-> 2024, month |-> 3, day |-> 15]

\* the fields of a transaction other than its id
fields(type, categoryId, amount, date) ==
  [type |-> type, categoryId |-> categoryId, amount |-> amount, date |-> date]

\* transactions that vary in category and amount: expenses of two catalog
\* categories, an expense of a category that is not in the catalog, an income
CategoryInputs ==
  {fields(EXPENSE, "food", a, MID_MARCH) : a \in Amounts}
  \cup { fields(EXPENSE, "housing", 1, MID_MARCH),
         fields(EXPENSE, "legacy", 1, MID_MARCH),
         fields(INCOME, "salary", 1, MID_MARCH) }

\* transactions that vary in date: three months of 2024, one of them with
\* a first of the month, and the same month of the year before
DateInputs ==
  { fields(EXPENSE, "food", 1, [year |-> 2024, month |-> 1, day |-> 15]),
    fields(EXPENSE, "food", MaxAmount, [year |-> 2024, month |-> 2, day |-> 15]),
    fields(EXPENSE, "food", 1, [year |-> 2024, month |-> 3, day |-> 1]),
    fields(INCOME, "salary", MaxAmount, MID_MARCH),
    fields(INCOME, "salary", 1, [year |-> 2023, month |-> 3, day |-> 15]) }

\* transactions stored together with budgets
BudgetTxInputs ==
  {fields(EXPENSE, "food", a, MID_MARCH) : a \in Amounts}
  \cup {fields(EXPENSE, "housing", 1, MID_MARCH)}

\* stored budget entries
BudgetInputs == [key : {"food", "housing"}, value : Amounts]

\* the i-th of n stored transactions; ids are the creation timestamps, the
\* newest transaction is first
stored(f, i, n) ==
  [id |-> n - i + 1, type |-> f.type, categoryId |-> f.categoryId,
   amount |-> f.amount, date |-> f.date]

InitCategories ==
  /\ \E n \in 0..MaxTx : \E f \in [1..n -> CategoryInputs] :
       transactions = [i \in 1..n |-> stored(f[i], i, n)]
  /\ budgets = <<>>
  /\ timeZoneWest = FALSE
  /\ lenientDateParser = FALSE

InitDates ==
  /\ \E n \in 0..MaxTx : \E f \in [1..n -> DateInputs] :
       transactions = [i \in 1..n |-> stored(f[i], i, n)]
  /\ budgets = <<>>
  /\ timeZoneWest \in BOOLEAN
  /\ lenientDateParser \in BOOLEAN

InitBudgets ==
  /\ \E n \in 0..MaxBudgetTx : \E f \in [1..n -> BudgetTxInputs] :
       transactions = [i \in 1..n |-> stored(f[i], i, n)]
  /\ \E m \in 1..2 : \E b \in [1..m -> BudgetInputs] :
       /\ \A i, j \in 1..m : b[i].key = b[j].key => i = j
       /\ budgets = b
  /\ timeZoneWest = FALSE
  /\ lenientDateParser = FALSE

\* transactions of the budgeted category "food" that vary in date and type
BudgetDateInputs ==
  { fields(EXPENSE, "food", 1, MID_MARCH),
    fields(EXPENSE, "food", 1, [year |-> 2024, month |-> 3, day |-> 1]),
    fields(EXPENSE, "food", 1, [year |-> 2024, month |-> 2, day |-> 15]),
    fields(EXPENSE, "food", 1, [year |-> 2023, month |-> 3, day |-> 15]),
    fields(INCOME, "food", 1, MID_MARCH) }

InitBudgetDates ==
  /\ \E n \in 0..MaxBudgetTx : \E f \in [1..n -> BudgetDateInputs] :
       transactions = [i \in 1..n |-> stored(f[i], i, n)]
  /\ budgets = <<[key |-> "food", value |-> MaxAmount]>>
  /\ timeZoneWest \in BOOLEAN
  /\ lenientDateParser = FALSE

\* the transaction collections of the documented budget examples
ExampleTransactions ==
  { <<>>,
    <<stored(fields(EXPENSE, "food", 800, MID_MARCH), 1, 1)>>,
    <<stored(fields(EXPENSE, "food", 600, MID_MARCH), 1, 1)>> }

\* the budgets of the documented examples, and stored budgets with an entry
\* that is not positive
ExampleBudgets ==
  { <<[key |-> "food", value |-> 1000]>>,
    <<[key |-> "food", value |-> 500]>>,
    <<[key |-> "food", value |-> 0], [key |-> "housing", value |-> 500]>>,
    <<[key |-> "food", value |-> -500]>> }

InitExamples ==
  /\ transactions \in ExampleTransactions
  /\ budgets \in ExampleBudgets
  /\ timeZoneWest = FALSE
  /\ lenientDateParser = FALSE

\* transactions stored together with a budget of a category that is not
\* in the catalog
LegacyTxInputs ==
  { fields(EXPENSE, "legacy", 1, MID_MARCH),
    fields(EXPENSE, "food", 1, MID_MARCH) }

InitLegacyBudget ==
  /\ \E n \in 0..MaxBudgetTx : \E f \in [1..n -> LegacyTxInputs] :
       transactions = [i \in 1..n |-> stored(f[i], i, n)]
  /\ \E v \in Amounts : budgets = <<[key |-> "legacy", value |-> v]>>
  /\ timeZoneWest = FALSE
  /\ lenientDateParser = FALSE

Init ==
  /\ \/ InitCategories \/ InitDates \/ InitBudgets \/ InitBudgetDates
     \/ InitExamples \/ InitLegacyBudget
  /\ now = START_CLOCK
  /\ view = notRendered
  /\ theme = DEFAULT_THEME
  /\ millis = START_MILLIS
  /\ event = noEvent

(* ------------------------------- actions ------------------------------- *)

\* A render of DashboardPage on the given collections, with the component
\* `mounted` on screen before it.  totals, monthlyData and stats are computed
\* by every render; budgetStatus and budgetAlerts are useMemo values that
\* are recomputed on mount and when transactions or budgets changed.
\* clock and statusClock record the values of new Date() that the render
\* and the budgetStatus memo read.
dashboardRender(txs, bdg, mounted) ==
  LET memoHit == /\ mounted.page = "dashboard"
                 /\ mounted.deps = <<txs, bdg>>
      start == IF memoHit
               THEN heap(txs, bdg, mounted.budgetStatus, mounted.budgetAlerts)
               ELSE heap(txs, bdg, <<>>, <<>>)
      computed == getDashboardStatsWrites(
                    groupTransactionsByMonthWrites(
                      calculateTotalsWrites(start), timeZoneWest, lenientDateParser),
                    now, timeZoneWest)
      memoised == IF memoHit THEN computed
                  ELSE budgetAlertsWrites(
                         budgetStatusWrites(computed, now, timeZoneWest))
      screen(h) ==
        [view |-> [page |-> "dashboard",
                   totals |-> h.totals,
                   monthlyData |-> h.monthlyData,
                   stats |-> h.stats,
                   deps |-> <<txs, bdg>>,
                   budgetStatus |-> h.budgetStatus,
                   budgetAlerts |-> h.budgetAlerts,
                   alertBanners |-> alertBanners(h.budgetAlerts),
                   statusClock |-> IF memoHit THEN mounted.statusClock ELSE now,
                   clock |-> now],
         transactions |-> h.transactions,
         budgets |-> h.budgets]
  IN  CHOOSE rendered \in {screen(h) : h \in {memoised}} : TRUE

\* the route "/" is shown or DashboardPage is rendered again
RenderDashboard ==
  \E rendered \in {dashboardRender(transactions, budgets, view)} :
    /\ view' = rendered.view
    /\ transactions' = rendered.transactions
    /\ budgets' = rendered.budgets
    /\ event' = noEvent
    /\ UNCHANGED <<environment, theme, millis>>

\* ReportsPage is rendered
RenderReports ==
  \E h \in {groupExpensesByCategoryWrites(heap(transactions, budgets, <<>>, <<>>))} :
    /\ view' = [page |-> "reports", expenseData |-> h.expenseData]
    /\ transactions' = h.transactions
    /\ budgets' = h.budgets
    /\ event' = noEvent
    /\ UNCHANGED <<environment, theme, millis>>

\* the router shows a page without aggregates; the mounted page is dropped
LeavePage ==
  /\ view.page # "none"
  /\ view' = notRendered
  /\ event' = noEvent
  /\ UNCHANGED <<transactions, budgets, environment, theme, millis>>

\* the environment clock passes into the next calendar month
Tick ==
  /\ monthIndex(now) - monthIndex(START_CLOCK) < MaxTick
  /\ now' = IF now.month = 11
            THEN [fullYear |-> now.fullYear + 1, month |-> 0]
            ELSE [now EXCEPT !.month = @ + 1]
  /\ event' = noEvent
  /\ UNCHANGED <<transactions, budgets, timeZoneWest, lenientDateParser, view,
                 theme, millis>>

Next == RenderDashboard \/ RenderReports \/ LeavePage \/ Tick

Spec == Init /\ [][Next]_vars

(* --------------------------- provider handlers ------------------------- *)
(* The handlers of the pages that change the state of AppProvider.  A page *)
(* other than the dashboard and the reports has no aggregates, so it is on *)
(* screen when view.page = "none".                                         *)

\* longest collection the add form extends, and the number of milliseconds
\* that pass while the application is open
MaxAppTx == 2
MaxMillis == 1

\* the value of a date field that was cleared
NO_DATE == [year |-> 0, month |-> 0, day |-> 0]

DecimalTexts == <<"0", "1", "2", "3", "4", "5", "6", "7", "8", "9">>

\* parseFloat of the texts that are typed into the number fields: a
\* number, or NaN for a text that does not start with one
parseFloat(text) ==
  IF text = "-1" THEN [isNaN |-> FALSE, value |-> -1]
  ELSE IF \E n \in 1..Len(DecimalTexts) : DecimalTexts[n] = text
       THEN [isNaN |-> FALSE,
             value |-> (CHOOSE n \in 1..Len(DecimalTexts) : DecimalTexts[n] = text) - 1]
       ELSE [isNaN |-> TRUE, value |-> 0]

\* the fresh collection of getSeedData
getSeedData == <<>>

\* an addTransaction that puts the new transaction after the previous ones
addTransaction_append(prev, transaction, dateNow) ==
  Append(prev, [id |-> dateNow, type |-> transaction.type,
                categoryId |-> transaction.categoryId,
                amount |-> transaction.amount, date |-> transaction.date])

\* the updater of addTransaction: the new transaction, with Date.now() as
\* its id (toString is one-to-one and is left out), before the previous ones
addTransaction(prev, transaction, dateNow) ==
  <<[id |-> dateNow, type |-> transaction.type,
     categoryId |-> transaction.categoryId, amount |-> transaction.amount,
     date |-> transaction.date]>> \o prev

\* a deleteTransaction that does not wait for the answer of the dialog
deleteTransaction_unconfirmed(prev, id, confirmed) ==
  LET keep(tx) == tx.id # id IN SelectSeq(prev, keep)

\* deleteTransaction: the collection after the call, where confirmed is the
\* answer of window.confirm and the updater is prev.filter(tx => tx.id !== id)
deleteTransaction(prev, id, confirmed) ==
  LET keep(tx) == tx.id # id
  IN  IF confirmed THEN SelectSeq(prev, keep) ELSE prev

\* delete obj[key]
objDelete(obj, key) ==
  LET other(entry) == entry.key # key IN SelectSeq(obj, other)

\* a setBudget that stores every amount but 0
setBudget_storeNegative(prev, categoryId, amount) ==
  IF amount = 0 THEN objDelete(prev, categoryId)
  ELSE objSet(prev, categoryId, amount)

\* setBudget: the budgets after the call
setBudget(prev, categoryId, amount) ==
  IF amount < 0 THEN prev
  ELSE IF amount = 0 THEN objDelete(prev, categoryId)
       ELSE objSet(prev, categoryId, amount)

\* the word that enables the reset button
RESET_WORD == "hadhf"

\* the forms that are submitted: an expense, an income, and a form without
\* an amount
FormInputs ==
  { [type |-> EXPENSE, categoryId |-> "food", amount |-> "1", date |-> MID_MARCH],
    [type |-> INCOME, categoryId |-> "salary", amount |-> "1", date |-> MID_MARCH],
    [type |-> EXPENSE, categoryId |-> "food", amount |-> "", date |-> MID_MARCH] }

\* the texts that are typed into a budget field
BudgetTexts == {"", "-1", "0", "1", "2"}

\* the categories whose budget field is used
BudgetRowInputs == {"food", "housing"}

\* the texts that are typed into the confirmation field of the reset page
ConfirmationTexts == {"", "hadh", RESET_WORD}

\* the themes that are selected
ThemeInputs == {DEFAULT_THEME, "theme-galaxy"}

\* handleSubmit of AddTransactionPage: an incomplete form is refused; else
\* the transaction is added and the router shows the dashboard
HandleSubmit ==
  /\ view.page = "none"
  /\ Len(transactions) < MaxAppTx
  /\ \E form \in FormInputs :
       IF form.amount = "" \/ form.categoryId = "" \/ form.date = NO_DATE
       THEN /\ event' = [op |-> "handleSubmit", added |-> FALSE]
            /\ UNCHANGED <<transactions, budgets, view>>
       ELSE LET transaction == [type |-> form.type, categoryId |-> form.categoryId,
                                amount |-> parseFloat(form.amount).value,
                                date |-> form.date]
            IN  \E rendered \in {dashboardRender(
                                    addTransaction(transactions, transaction, millis),
                                    budgets, notRendered)} :
                  /\ transactions' = rendered.transactions
                  /\ budgets' = rendered.budgets
                  /\ view' = rendered.view
                  /\ event' = [op |-> "handleSubmit", added |-> TRUE]
  /\ UNCHANGED <<environment, theme, millis>>

\* the delete button of a TransactionItem of the dashboard: deleteTransaction
\* asks window.confirm, and an accepted deletion renders the dashboard again
DeleteTransaction ==
  /\ view.page = "dashboard"
  /\ \E i \in 1..Len(transactions) : \E confirmed \in BOOLEAN :
       LET id == transactions[i].id
           after == deleteTransaction(transactions, id, confirmed)
       IN  /\ event' = [op |-> "deleteTransaction", id |-> id,
                        confirmed |-> confirmed]
           /\ IF after # transactions
              THEN \E rendered \in {dashboardRender(after, budgets, view)} :
                     /\ transactions' = rendered.transactions
                     /\ budgets' = rendered.budgets
                     /\ view' = rendered.view
              ELSE UNCHANGED <<transactions, budgets, view>>
  /\ UNCHANGED <<environment, theme, millis>>

\* handleSetBudget of a BudgetInputRow of the settings page
HandleSetBudget ==
  /\ view.page = "none"
  /\ \E categoryId \in BudgetRowInputs : \E text \in BudgetTexts :
       LET parsed == parseFloat(text)
           amount == IF parsed.isNaN \/ parsed.value = 0 THEN 0 ELSE parsed.value
       IN  /\ budgets' = setBudget(budgets, categoryId, amount)
           /\ event' = [op |-> "setBudget", categoryId |-> categoryId,
                        amount |-> amount]
  /\ UNCHANGED <<transactions, environment, view, theme, millis>>

\* handleReset of ResetPage: resetTransactions is called when the typed
\* text is the word, and the router shows the dashboard
HandleReset ==
  /\ view.page = "none"
  /\ \E confirmationText \in ConfirmationTexts :
       LET isButtonDisabled == confirmationText # RESET_WORD
       IN  /\ event' = [op |-> "handleReset",
                        confirmationText |-> confirmationText]
           /\ IF ~isButtonDisabled
              THEN \E rendered \in {dashboardRender(getSeedData, <<>>, notRendered)} :
                     /\ transactions' = rendered.transactions
                     /\ budgets' = rendered.budgets
                     /\ view' = rendered.view
              ELSE UNCHANGED <<transactions, budgets, view>>
  /\ UNCHANGED <<environment, theme, millis>>

\* a theme button of the settings page
SetTheme ==
  /\ view.page = "none"
  /\ \E class \in ThemeInputs : theme' = class
  /\ event' = [op |-> "setTheme"]
  /\ UNCHANGED <<transactions, budgets, environment, view, millis>>

\* a millisecond passes
AdvanceMillis ==
  /\ millis < START_MILLIS + MaxMillis
  /\ millis' = millis + 1
  /\ event' = noEvent
  /\ UNCHANGED <<transactions, budgets, environment, view, theme>>

\* the application is opened for the first time: nothing is stored
InitApp ==
  /\ transactions = getSeedData
  /\ budgets = <<>>
  /\ theme = DEFAULT_THEME
  /\ now = START_CLOCK
  /\ timeZoneWest = FALSE
  /\ lenientDateParser = FALSE
  /\ view = notRendered
  /\ millis = START_MILLIS
  /\ event = noEvent

NextApp ==
  \/ RenderDashboard \/ LeavePage
  \/ HandleSubmit \/ DeleteTransaction \/ HandleSetBudget \/ HandleReset
  \/ SetTheme \/ AdvanceMillis

SpecApp == InitApp /\ [][NextApp]_vars

(* ------------------- vocabulary of the properties ---------------------- *)

\* sum of the amounts of the transactions of txs at the positions in S
RECURSIVE AmountSum(_, _)
AmountSum(txs, S) ==
  IF S = {} THEN 0
  ELSE LET i == CHOOSE j \in S : TRUE
       IN  txs[i].amount + AmountSum(txs, S \ {i})

\* positions of the transactions of a type
OfType(txs, type) == {i \in 1..Len(txs) : txs[i].type = type}

\* the catalog as a set, and the ids it resolves
Catalog ==
  {CATEGORIES_INCOME[i] : i \in 1..Len(CATEGORIES_INCOME)}
  \cup {CATEGORIES_EXPENSE[i] : i \in 1..Len(CATEGORIES_EXPENSE)}

Resolvable(id) == \E c \in Catalog : c.id = id

CatalogEntry(id) == CHOOSE c \in Catalog : c.id = id

\* positions of the EXPENSE transactions of a category
ExpensesOf(txs, id) ==
  {i \in OfType(txs, EXPENSE) : txs[i].categoryId = id}

\* positions of the EXPENSE transactions whose category is not in the catalog
UnresolvedExpenses(txs) ==
  {i \in OfType(txs, EXPENSE) : ~Resolvable(txs[i].categoryId)}

\* sum of the field value over a list of entries
RECURSIVE ValueSum(_)
ValueSum(entries) ==
  IF entries = <<>> THEN 0 ELSE Head(entries).value + ValueSum(Tail(entries))

\* every reordering of a sequence
Reorderings(seq) ==
  {[i \in 1..Len(seq) |-> seq[p[i]]] : p \in Permutations(1..Len(seq))}

Range(seq) == {seq[i] : i \in 1..Len(seq)}

(* ------------------------------ properties ----------------------------- *)

\* C1: the totals shown by the dashboard satisfy balance = income - expense,
\* for every stored collection, the empty one included.
C1_BalanceIsIncomeMinusExpense ==
  view.page = "dashboard" =>
    view.totals.balance = view.totals.income - view.totals.expense

\* C1 witness: totals of a collection with both income and expense
C1_Witness ==
  /\ view.page = "dashboard"
  /\ view.totals.income > 0
  /\ view.totals.expense > 0

\* C2: the totals carry the sum of the INCOME amounts as income and the sum
\* of the EXPENSE amounts as expense; the empty collection gives 0, 0, 0.
C2_TotalsAreSums ==
  view.page = "dashboard" =>
    /\ view.totals.income = AmountSum(transactions, OfType(transactions, INCOME))
    /\ view.totals.expense = AmountSum(transactions, OfType(transactions, EXPENSE))
    /\ transactions = <<>> =>
         view.totals = [income |-> 0, expense |-> 0, balance |-> 0]

\* C2 witness: totals of a collection with two expenses and an income
C2_Witness ==
  /\ view.page = "dashboard"
  /\ Cardinality(OfType(transactions, EXPENSE)) >= 2
  /\ OfType(transactions, INCOME) # {}
  /\ view.totals.expense > view.totals.income

\* C3: the values of the category breakdown add up to the total expense
\* minus the amounts of the expenses whose category is not in the catalog.
C3_BreakdownSum ==
  view.page = "reports" =>
    ValueSum(view.expenseData) =
      calculateTotals(transactions).expense
        - AmountSum(transactions, UnresolvedExpenses(transactions))

\* C3 witness: a breakdown of a collection with an unresolvable expense and
\* two expenses of one resolvable category
C3_Witness ==
  /\ view.page = "reports"
  /\ UnresolvedExpenses(transactions) # {}
  /\ \E id \in {"food", "housing"} : Cardinality(ExpensesOf(transactions, id)) >= 2

\* C4: the category breakdown has exactly one entry per resolvable category
\* that occurs among the expenses, with the catalog name and color and the
\* sum of the category's expense amounts; income and unresolvable expenses
\* add no entry, and the empty collection gives the empty list.
C4_BreakdownEntries ==
  view.page = "reports" =>
    LET ids == {transactions[i].categoryId : i \in OfType(transactions, EXPENSE)}
        resolved == {id \in ids : Resolvable(id)}
        expected(id) ==
          [name |-> CatalogEntry(id).name,
           value |-> AmountSum(transactions, ExpensesOf(transactions, id)),
           color |-> CatalogEntry(id).color]
    IN  /\ Len(view.expenseData) = Cardinality(resolved)
        /\ Range(view.expenseData) = {expected(id) : id \in resolved}
        /\ transactions = <<>> => view.expenseData = <<>>

\* C4 witness: a breakdown with two categories beside an income and an
\* unresolvable expense
C4_Witness ==
  /\ view.page = "reports"
  /\ Len(view.expenseData) = 2
  /\ Len(transactions) > 2

\* C5: reordering the transaction collection changes neither the totals,
\* nor the set of entries of the category breakdown, nor the list of budget
\* status rows of the same budgets and month.
C5_OrderIndependent ==
  \A txs \in Reorderings(transactions) :
    /\ view.page = "dashboard" =>
         /\ calculateTotals(txs) = view.totals
         /\ budgetStatus(txs, budgets, view.statusClock, timeZoneWest)
              = view.budgetStatus
    /\ view.page = "reports" =>
         Range(groupExpensesByCategory(txs)) = Range(view.expenseData)

\* C5 witness: budget rows with spending, computed from a collection that
\* has a different reordering
C5_Witness ==
  /\ view.page = "dashboard"
  /\ Cardinality(Reorderings(transactions)) > 1
  /\ Len(view.budgetStatus) = 2
  /\ \A i \in 1..2 : view.budgetStatus[i].spentAmount > 0

\* C6: the largest spending category depends on the multiset of transactions
\* only: every reordering of the collection reports the same category, also
\* when categories tie for the largest sum.
C6_LargestIgnoresOrder ==
  view.page = "dashboard" =>
    \A txs \in Reorderings(transactions) :
      largestSpendingCategory(txs) = view.stats.largestSpendingCategory

\* C7: two evaluations of the dashboard statistics and of the budget status
\* rows on the same transactions and budgets give equal results, also when
\* the environment clock advanced between them.
C7_SameSnapshotSameResult ==
  [][(/\ view.page = "dashboard"
      /\ view'.page = "dashboard"
      /\ view'.deps = view.deps)
     => (/\ view'.stats = view.stats
         /\ view'.budgetStatus = view.budgetStatus)]_vars

\* the calendar months (year, month 1..12) of the date fields
CalendarMonths(txs) ==
  {<<txs[i].date.year, txs[i].date.month>> : i \in 1..Len(txs)}

\* positions of the transactions of a type dated in a calendar month
InMonth(txs, type, ym) ==
  {i \in OfType(txs, type) : <<txs[i].date.year, txs[i].date.month>> = ym}

\* the label of a calendar month
LabelOf(ym) == [month |-> AR_MONTHS[ym[2]], year |-> ym[1]]

\* the calendar month of a label, counted in months
LabelMonthIndex(label) ==
  label.year * 12 + (CHOOSE m \in 1..12 : AR_MONTHS[m] = label.month)

\* C8: the monthly series has one bucket per calendar year and month of the
\* date fields (two transactions share a bucket exactly if their dates have
\* the same year and month); a bucket carries the sum of its INCOME amounts
\* and the sum of its EXPENSE amounts, and over all buckets these add up to
\* the income and the expense of the totals.
C8_MonthBuckets ==
  view.page = "dashboard" =>
    LET months == CalendarMonths(transactions)
        expected(ym) ==
          [name |-> LabelOf(ym),
           income |-> AmountSum(transactions, InMonth(transactions, INCOME, ym)),
           expense |-> AmountSum(transactions, InMonth(transactions, EXPENSE, ym))]
        incomes == [i \in 1..Len(view.monthlyData) |->
                      [value |-> view.monthlyData[i].income]]
        expenses == [i \in 1..Len(view.monthlyData) |->
                       [value |-> view.monthlyData[i].expense]]
    IN  /\ Len(view.monthlyData) = Cardinality(months)
        /\ Range(view.monthlyData) = {expected(ym) : ym \in months}
        /\ ValueSum(incomes) = view.totals.income
        /\ ValueSum(expenses) = view.totals.expense

\* C9: the monthly series is in descending calendar order, the most recent
\* month first, whatever the order of the transactions.
C9_MonthsDescending ==
  view.page = "dashboard" =>
    \A i, j \in 1..Len(view.monthlyData) :
      i < j => LabelMonthIndex(view.monthlyData[i].name)
                 > LabelMonthIndex(view.monthlyData[j].name)

\* the name shown for a category id
DisplayName(id) == IF Resolvable(id) THEN CatalogEntry(id).name ELSE LABEL_UNKNOWN

\* C10: the largest spending category is a category whose EXPENSE sum is
\* the largest among the categories of the expenses; without any expense
\* it is the none label.
C10_LargestIsMaximal ==
  view.page = "dashboard" =>
    LET ids == {transactions[i].categoryId : i \in OfType(transactions, EXPENSE)}
        total(id) == AmountSum(transactions, ExpensesOf(transactions, id))
    IN  IF ids = {}
        THEN view.stats.largestSpendingCategory = LABEL_NONE
        ELSE \E id \in ids :
               /\ \A other \in ids : total(other) <= total(id)
               /\ view.stats.largestSpendingCategory = DisplayName(id)

\* C10 witness: statistics of a collection whose first expense is not of
\* the category with the largest sum
C10_Witness ==
  /\ view.page = "dashboard"
  /\ \E i \in OfType(transactions, EXPENSE) :
       /\ \A j \in OfType(transactions, EXPENSE) : i <= j
       /\ DisplayName(transactions[i].categoryId) # view.stats.largestSpendingCategory

\* the category ids of the expenses
ExpenseIds(txs) == {txs[i].categoryId : i \in OfType(txs, EXPENSE)}

\* the category id whose EXPENSE sum is larger than that of every other id
StrictlyLargest(txs, id) ==
  /\ id \in ExpenseIds(txs)
  /\ \A other \in ExpenseIds(txs) \ {id} :
       AmountSum(txs, ExpensesOf(txs, other)) < AmountSum(txs, ExpensesOf(txs, id))

\* C11: an expense whose category is not in the catalog is summed under its
\* raw categoryId; when that id has the largest sum the dashboard reports
\* the unknown label, and a catalog category with the largest sum is still
\* reported by name.
C11_UnresolvableIsCounted ==
  view.page = "dashboard" =>
    \A id \in ExpenseIds(transactions) :
      StrictlyLargest(transactions, id) =>
        view.stats.largestSpendingCategory =
          (IF Resolvable(id) THEN CatalogEntry(id).name ELSE LABEL_UNKNOWN)

\* C11 witness: the unresolvable category wins by the sum of two expenses
\* over a catalog category
C11_Witness ==
  /\ view.page = "dashboard"
  /\ view.stats.largestSpendingCategory = LABEL_UNKNOWN
  /\ \E id \in ExpenseIds(transactions) :
       /\ ~Resolvable(id)
       /\ StrictlyLargest(transactions, id)
       /\ Cardinality(ExpensesOf(transactions, id)) = 2
  /\ \E id \in ExpenseIds(transactions) : Resolvable(id)

\* C12: highestIncome is the largest amount of a single INCOME transaction,
\* and 0 without any INCOME transaction; EXPENSE amounts have no influence.
C12_HighestIncome ==
  view.page = "dashboard" =>
    LET incomes == OfType(transactions, INCOME)
    IN  IF incomes = {}
        THEN view.stats.highestIncome = 0
        ELSE /\ \E i \in incomes : transactions[i].amount = view.stats.highestIncome
             /\ \A i \in incomes : transactions[i].amount <= view.stats.highestIncome

\* C12 witness: two incomes of different amounts beside an expense that is
\* larger than the smaller income
C12_Witness ==
  /\ view.page = "dashboard"
  /\ \E i, j \in OfType(transactions, INCOME) :
       transactions[i].amount < transactions[j].amount
  /\ \E i \in OfType(transactions, INCOME), e \in OfType(transactions, EXPENSE) :
       transactions[e].amount > transactions[i].amount

\* the fraction p is the savings percentage of an income and an expense:
\* 0 for no income, else (income - expense) / income * 100
IsSavingsOf(p, income, expense) ==
  /\ p.den > 0
  /\ IF income = 0
     THEN p.num = 0
     ELSE p.num * income = (income - expense) * 100 * p.den

\* positions of the transactions that the current-month filter of a render
\* at the given clock selects
SelectedAsCurrent(txs, clock) ==
  {i \in 1..Len(txs) : inCurrentMonth(txs[i], clock, timeZoneWest)}

\* C13: monthlySavingsPercentage is 0 when the income of the transactions
\* selected for the current month is zero (only expenses, or nothing), and
\* otherwise (income - expense) / income * 100 over them, which is negative
\* when their expense exceeds their income.
C13_SavingsPercentage ==
  view.page = "dashboard" =>
    LET cur == SelectedAsCurrent(transactions, view.clock)
        income == AmountSum(transactions, cur \cap OfType(transactions, INCOME))
        expense == AmountSum(transactions, cur \cap OfType(transactions, EXPENSE))
        p == view.stats.monthlySavingsPercentage
    IN  /\ IsSavingsOf(p, income, expense)
        /\ (income > 0 /\ expense > income) => p.num < 0

\* C13 witness: the expense of the current month exceeds its income
C13_Witness ==
  /\ view.page = "dashboard"
  /\ view.stats.monthlySavingsPercentage = [num |-> -100, den |-> 1]

\* positions of the transactions whose date field has the calendar month
\* and year of the clock
DatedInMonthOf(txs, clock) ==
  {i \in 1..Len(txs) : /\ txs[i].date.year = clock.fullYear
                      /\ txs[i].date.month = clock.month + 1}

\* C14: exactly the transactions whose date has the calendar month and the
\* calendar year of the current moment contribute to monthlySavingsPercentage.
C14_CurrentMonthOnly ==
  view.page = "dashboard" =>
    LET cur == DatedInMonthOf(transactions, view.clock)
        income == AmountSum(transactions, cur \cap OfType(transactions, INCOME))
        expense == AmountSum(transactions, cur \cap OfType(transactions, EXPENSE))
    IN  IsSavingsOf(view.stats.monthlySavingsPercentage, income, expense)

\* the rows of the budget status list that is on the screen
StatusRows == {view.budgetStatus[i] : i \in 1..Len(view.budgetStatus)}

\* the rows of a category in the budget status list
RowsFor(id) == {r \in StatusRows : r.categoryId = id}

\* the configured budget entries of a category
BudgetEntries(bdg, id) == {i \in 1..Len(bdg) : bdg[i].key = id}

\* positions of the expenses of a category that the current-month filter of
\* the budget evaluation at the given clock selects
SelectedSpending(txs, id, clock) ==
  {i \in SelectedAsCurrent(txs, clock) :
     txs[i].type = EXPENSE /\ txs[i].categoryId = id}

\* C15: in every budget status row the limit is the configured budget of
\* the row's category, percentage = spent / limit * 100 and
\* remaining = limit - spent, negative when spent exceeds the limit; limit
\* 1000 with spend 800 gives 80 and 200, limit 500 with spend 600 gives 120
\* and -100.
C15_PercentageAndRemaining ==
  view.page = "dashboard" =>
    \A r \in StatusRows :
      /\ \E i \in BudgetEntries(budgets, r.categoryId) :
           budgets[i].value = r.budgetAmount
      /\ r.percentage.den > 0
      /\ r.percentage.num * r.budgetAmount = r.spentAmount * 100 * r.percentage.den
      /\ r.remaining = r.budgetAmount - r.spentAmount
      /\ r.spentAmount > r.budgetAmount => r.remaining < 0
      /\ (r.budgetAmount = 1000 /\ r.spentAmount = 800) =>
           r.percentage = [num |-> 80, den |-> 1] /\ r.remaining = 200
      /\ (r.budgetAmount = 500 /\ r.spentAmount = 600) =>
           r.percentage = [num |-> 120, den |-> 1] /\ r.remaining = -100

\* C15 witness: the documented example of the exceeded budget is on the
\* screen
C15_Witness ==
  /\ view.page = "dashboard"
  /\ \E r \in StatusRows : r.budgetAmount = 500 /\ r.spentAmount = 600

\* C16: spent of the row of category c is the sum of the amounts of exactly
\* the EXPENSE transactions with categoryId c whose date has the calendar
\* month and year of the evaluation; INCOME transactions of c and expenses
\* of other months or years are not counted.
C16_SpentIsCurrentMonthExpense ==
  view.page = "dashboard" =>
    \A r \in StatusRows :
      r.spentAmount =
        AmountSum(transactions,
                  {i \in DatedInMonthOf(transactions, view.statusClock) :
                     /\ transactions[i].type = EXPENSE
                     /\ transactions[i].categoryId = r.categoryId})

\* C17: no status row stands for a category without a budget entry or with
\* a configured limit <= 0; every row has limit > 0 and a percentage with a
\* non-zero divisor.
C17_OnlyPositiveBudgets ==
  view.page = "dashboard" =>
    /\ \A r \in StatusRows :
         /\ r.budgetAmount > 0
         /\ r.percentage.den # 0
         /\ \E i \in BudgetEntries(budgets, r.categoryId) : budgets[i].value > 0
    /\ \A i \in 1..Len(budgets) :
         budgets[i].value <= 0 => RowsFor(budgets[i].key) = {}
    /\ \A i \in 1..Len(transactions) :
         BudgetEntries(budgets, transactions[i].categoryId) = {} =>
           RowsFor(transactions[i].categoryId) = {}

\* C17 witness: a budget entry that is not positive, for a category with
\* spending, next to a positive one
C17_Witness ==
  /\ view.page = "dashboard"
  /\ \E i \in 1..Len(budgets) :
       /\ budgets[i].value <= 0
       /\ ExpensesOf(transactions, budgets[i].key) # {}
  /\ StatusRows # {}

\* C18: every budget entry with a limit > 0 has its status row, also when
\* there is no transaction at all or none is selected for it in the current
\* month; that row then has spent 0, percentage 0 and remaining = limit.
C18_UnspentBudgetHasRow ==
  view.page = "dashboard" =>
    \A i \in 1..Len(budgets) :
      budgets[i].value > 0 =>
        /\ Cardinality(RowsFor(budgets[i].key)) = 1
        /\ SelectedSpending(transactions, budgets[i].key, view.statusClock) = {} =>
             \A r \in RowsFor(budgets[i].key) :
               /\ r.spentAmount = 0
               /\ r.percentage.num = 0
               /\ r.remaining = budgets[i].value

\* C18 witness: a budgeted category whose only expenses are of other months
C18_Witness ==
  /\ view.page = "dashboard"
  /\ \E i \in 1..Len(budgets) :
       /\ budgets[i].value > 0
       /\ ExpensesOf(transactions, budgets[i].key) # {}
       /\ SelectedSpending(transactions, budgets[i].key, view.statusClock) = {}
       /\ \E r \in RowsFor(budgets[i].key) : r.spentAmount = 0

\* the state of the documented empty-collection example of the budget
\* evaluation, on the screen
EmptyCollectionExample ==
  /\ view.page = "dashboard"
  /\ transactions = <<>>
  /\ budgets = <<[key |-> "food", value |-> 1000]>>

\* C19 as stated: the budgets {food: 1000} evaluated on the empty
\* transaction collection give the empty list of status rows.
C19_EmptyCollectionNoRows ==
  EmptyCollectionExample => view.budgetStatus = <<>>

\* C19 amended: the budgets {food: 1000} evaluated on the empty transaction
\* collection give exactly one status row: food, limit 1000, spent 0,
\* percentage 0, remaining 1000.
C19_EmptyCollectionOneRow ==
  EmptyCollectionExample =>
    /\ Len(view.budgetStatus) = 1
    /\ view.budgetStatus[1].categoryId = "food"
    /\ view.budgetStatus[1].budgetAmount = 1000
    /\ view.budgetStatus[1].spentAmount = 0
    /\ view.budgetStatus[1].percentage = [num |-> 0, den |-> 1]
    /\ view.budgetStatus[1].remaining = 1000

\* C19 witness: the example state is reached
C19_Witness == EmptyCollectionExample

\* C20: the budget status rows are in descending order of percentage: of
\* two adjacent rows the earlier one's percentage is >= the later one's.
C20_RowsDescending ==
  view.page = "dashboard" =>
    \A i \in 1..(Len(view.budgetStatus) - 1) :
      view.budgetStatus[i].percentage.num * view.budgetStatus[i + 1].percentage.den
        >= view.budgetStatus[i + 1].percentage.num * view.budgetStatus[i].percentage.den

\* C20 witness: two rows of different percentages, in the reverse of the
\* order of their budget entries
C20_Witness ==
  /\ view.page = "dashboard"
  /\ Len(view.budgetStatus) = 2
  /\ Len(budgets) = 2
  /\ view.budgetStatus[1].categoryId = budgets[2].key
  /\ view.budgetStatus[1].percentage # view.budgetStatus[2].percentage

\* the percentage of a row is at least p percent
AtLeastPercent(r, p) == r.percentage.num >= p * r.percentage.den

\* the rows of a list that satisfy a test given as the set of its rows
RECURSIVE RowsIn(_, _)
RowsIn(rows, S) ==
  IF rows = <<>> THEN <<>>
  ELSE IF Head(rows) \in S THEN <<Head(rows)>> \o RowsIn(Tail(rows), S)
       ELSE RowsIn(Tail(rows), S)

\* C21: the alert list consists of exactly the budget status rows with a
\* percentage >= 80, a row at exactly 80 included and a row below 80 not,
\* in the relative order they have in the status list.
C21_AlertsAreRowsFromThreshold ==
  view.page = "dashboard" =>
    view.budgetAlerts =
      RowsIn(view.budgetStatus, {r \in StatusRows : AtLeastPercent(r, 80)})

\* C21 witness: a row at exactly 80 percent is in the alert list
C21_Witness ==
  /\ view.page = "dashboard"
  /\ \E i \in 1..Len(view.budgetAlerts) :
       view.budgetAlerts[i].percentage = [num |-> 80, den |-> 1]

\* C22: a budget whose spend exceeds its limit (percentage > 100, as limit
\* 500 with spent 600) is in the alert list and is shown as exceeded; an
\* alert with 80 <= percentage <= 100 is shown as approaching.
C22_ExceededAndApproaching ==
  view.page = "dashboard" =>
    /\ Len(view.alertBanners) = Len(view.budgetAlerts)
    /\ \A r \in StatusRows :
         r.spentAmount > r.budgetAmount =>
           \E i \in 1..Len(view.budgetAlerts) : view.budgetAlerts[i] = r
    /\ \A i \in 1..Len(view.budgetAlerts) :
         LET alert == view.budgetAlerts[i]
             banner == view.alertBanners[i]
         IN  /\ banner.key = alert.categoryId
             /\ alert.spentAmount > alert.budgetAmount <=>
                  banner.message = "exceeded"
             /\ alert.spentAmount <= alert.budgetAmount <=>
                  banner.message = "approaching"
             /\ banner.message = "exceeded" <=>
                  banner.className = "bg-red-100 text-error"

\* C22 witness: the documented exceeded budget is shown as exceeded
C22_Witness ==
  /\ view.page = "dashboard"
  /\ \E i \in 1..Len(view.budgetAlerts) :
       /\ view.budgetAlerts[i].budgetAmount = 500
       /\ view.budgetAlerts[i].spentAmount = 600
       /\ view.alertBanners[i].message = "exceeded"

\* C23: a budget entry of a category that is not in the catalog has its
\* status row, with spent, percentage and remaining computed as for any
\* other row and with the name of the unknown category.
C23_UnknownBudgetCategory ==
  view.page = "dashboard" =>
    \A i \in 1..Len(budgets) :
      (budgets[i].value > 0 /\ ~Resolvable(budgets[i].key)) =>
        /\ RowsFor(budgets[i].key) # {}
        /\ \A r \in RowsFor(budgets[i].key) :
             /\ r.categoryName = LABEL_UNKNOWN
             /\ r.budgetAmount = budgets[i].value
             /\ r.spentAmount =
                  AmountSum(transactions,
                            SelectedSpending(transactions, r.categoryId,
                                             view.statusClock))
             /\ r.percentage.den > 0
             /\ r.percentage.num * r.budgetAmount =
                  r.spentAmount * 100 * r.percentage.den
             /\ r.remaining = r.budgetAmount - r.spentAmount

\* C23 witness: the row of a budget of an unknown category with spending
C23_Witness ==
  /\ view.page = "dashboard"
  /\ \E r \in StatusRows :
       /\ ~Resolvable(r.categoryId)
       /\ r.categoryName = LABEL_UNKNOWN
       /\ r.spentAmount > 0

\* C24: no evaluation of calculateTotals, groupExpensesByCategory,
\* groupTransactionsByMonth, getDashboardStats, the budget status or the
\* alert selection changes the transaction collection, a transaction or
\* the budgets it was given, and the alert selection leaves the status list
\* it reads as it was: a step that renders a page keeps all of them.
C24_InputsNotModified ==
  [][(view' # view /\ view'.page # "none") =>
       /\ transactions' = transactions
       /\ budgets' = budgets
       /\ view'.page = "dashboard" =>
            view'.budgetStatus =
              IF view.page = "dashboard" /\ view.deps = <<transactions, budgets>>
              THEN view.budgetStatus
              ELSE budgetStatus(transactions, budgets, now, timeZoneWest)]_vars

\* C24 witness: a dashboard computed from several transactions and from
\* budgets of which some but not all are alerts
C24_Witness ==
  /\ view.page = "dashboard"
  /\ Len(transactions) >= 2
  /\ view.budgetAlerts # <<>>
  /\ Len(view.budgetAlerts) < Len(view.budgetStatus)

\* the entries of a budget configuration other than the one of a category
OtherBudgets(bdg, id) == {bdg[i] : i \in {j \in 1..Len(bdg) : bdg[j].key # id}}

\* C25: setting the budget of a category to a value <= 0 leaves the
\* category without a budget entry, also when it had a positive budget
\* before, and leaves the budgets of the other categories as they were.
C25_NonPositiveBudgetIsRemoved ==
  [][(event'.op = "setBudget" /\ event'.amount <= 0) =>
       /\ BudgetEntries(budgets', event'.categoryId) = {}
       /\ OtherBudgets(budgets', event'.categoryId)
            = OtherBudgets(budgets, event'.categoryId)]_vars

\* C26: after any sequence of additions, deletions and resets the
\* transactions of the collection have pairwise distinct ids, also when two
\* of them were added in the same millisecond.
C26_DistinctIds ==
  \A i, j \in 1..Len(transactions) :
    transactions[i].id = transactions[j].id => i = j

\* the step is a deletion with the given answer of the dialog
DeletionStep(answer) ==
  event'.op = "deleteTransaction" /\ event'.confirmed = answer

\* the step is a press of the reset button with the word typed, or not
ResetStep(typed) ==
  /\ event'.op = "handleReset"
  /\ (event'.confirmationText = RESET_WORD) = typed

\* C27: a deletion changes the collection only when the dialog was
\* accepted, and the reset runs only when the typed text is the word:
\* without the confirmation transactions and budgets stay as they are, and
\* a step that removes a transaction is a confirmed one.
C27_ConfirmedBeforeDestruction ==
  [][/\ (DeletionStep(FALSE) \/ ResetStep(FALSE)) =>
          transactions' = transactions /\ budgets' = budgets
     /\ Len(transactions') < Len(transactions) =>
          DeletionStep(TRUE) \/ ResetStep(TRUE)]_vars

\* C27 witness: the dialog of a deletion was dismissed with transactions
\* in the collection
C27_Witness ==
  /\ event.op = "deleteTransaction"
  /\ ~event.confirmed
  /\ transactions # <<>>

C29_BudgetsPositiveAndReset ==
  /\ [](\A i \in 1..Len(budgets) : budgets[i].value > 0)
  /\ [][ResetStep(TRUE) =>
          /\ transactions' = <<>>
          /\ budgets' = <<>>
          /\ theme' = theme]_vars

\* C29 witness: a reset was confirmed with another theme than the default
C29_Witness ==
  /\ event.op = "handleReset"
  /\ event.confirmationText = RESET_WORD
  /\ theme # DEFAULT_THEME
  /\ budgets = <<>>

====
